---- MODULE Spec2Model ----
(***************************************************************************)
(* Inventory / sales ledger of src/src/App.tsx (the v2 application).       *)
(*                                                                         *)
(* State: the two React state collections `items` and `sales`, and the two *)
(* local-storage keys they are mirrored to.  One action per ledger         *)
(* handler; an action covers the handler, the state updaters it queues,    *)
(* the commit of the resulting render and the two persist effects.         *)
(*                                                                         *)
(* JavaScript values.  An optional number field (`stockUnits?: number`) is *)
(* a sequence: <<>> is undefined (and every other non-finite value, which  *)
(* the code treats alike through `|| 0`, Number.isFinite and clampNonNeg), *)
(* <<n>> is the finite number n.  Numbers are counted in grains (the       *)
(* smallest quantity step).  Arithmetic is floating point: every +, - and  *)
(* * rounds its exact result to Precision significant bits, ties to even.  *)
(***************************************************************************)
EXTENDS Integers, Sequences, FiniteSets, TLC

(* ------------------------------ bounds --------------------------------- *)
Precision == 2
MaxItems == 2
MaxSales == 2
MaxUid == 4
MaxStock == 6
MaxWriteFailures == 1
MaxSteps == 4

(* ------------------------- JavaScript numbers -------------------------- *)
Undefined == <<>>

Num(n) == <<n>>

IsFinite(v) == Len(v) = 1

OrZero(v) == IF Len(v) = 1 THEN v[1] ELSE 0

RECURSIVE Pow2(_)
Pow2(n) == IF n = 0 THEN 1 ELSE 2 * Pow2(n - 1)

RECURSIVE BitLen(_)
BitLen(x) == IF x = 0 THEN 0 ELSE 1 + BitLen(x \div 2)

RoundPos(x) ==
  LET e == BitLen(x) - Precision IN
  IF e <= 0 THEN x
  ELSE LET u == Pow2(e)
           m == x \div u
           r == x - m * u
       IN IF 2 * r < u THEN m * u
          ELSE IF 2 * r > u THEN (m + 1) * u
          ELSE IF m % 2 = 0 THEN m * u ELSE (m + 1) * u

Fl(x) == IF x < 0 THEN 0 - RoundPos(0 - x) ELSE RoundPos(x)

Add(a, b) == Fl(a + b)

Sub_Swapped(a, b) == Fl(b - a)

Sub(a, b) == Fl(a - b)

Mul(a, b) == Fl(a * b)

clampNonNeg_NoFloor(n) == n

clampNonNeg(n) == IF n > 0 THEN n ELSE 0

(* ------------------------------ inputs --------------------------------- *)
TrackBys == {"unit", "kg"}
PriceInputs == {1}
EditPriceInputs == {2}
SellQtyInputs == {Undefined, Num(-1), Num(0), Num(1), Num(8)}
StockInputs == {Undefined, Num(-1), Num(6)}
DeltaInputs == {-6, 1}
QtyInputs == {Num(-8), Num(1), Num(2)}
OverrideInputs == {Undefined, Num(3)}
EditStockInputs == {Num(0)}
RestockInputs == {0, 1}
BatchQtyInputs == {Num(1), Num(6)}
NoteInputs == {Undefined}
Uids == 1..MaxUid

(* ------------------------------- state --------------------------------- *)
VARIABLES items, sales, lsItems, lsSales, failBudget, steps, last, backup

vars == <<items, sales, lsItems, lsSales, failBudget, steps, last, backup>>

(* ------------------------------ helpers -------------------------------- *)
Range(s) == {s[k] : k \in 1..Len(s)}

Ids(s) == {s[k].id : k \in 1..Len(s)}

Prepend(x, s) == <<x>> \o s

RECURSIVE SeqFilter(_, _)
SeqFilter(Keep(_), s) ==
  IF s = <<>> THEN <<>>
  ELSE IF Keep(Head(s)) THEN <<Head(s)>> \o SeqFilter(Keep, Tail(s))
       ELSE SeqFilter(Keep, Tail(s))

(* itemMap.get(id): the entry of the rendered items with that id (a Map    *)
(* keeps the last of equal keys); <<>> when there is none.                 *)
itemMapGet(im, id) ==
  LET ks == {k \in 1..Len(im) : im[k].id = id} IN
  IF ks = {} THEN <<>>
  ELSE <<im[CHOOSE k \in ks : \A j \in ks : j <= k]>>

(* prev.find(s => s.id === saleId): the first such sale; <<>> when none.   *)
findSale(prev, saleId) ==
  LET ks == {k \in 1..Len(prev) : prev[k].id = saleId} IN
  IF ks = {} THEN <<>>
  ELSE <<prev[CHOOSE k \in ks : \A j \in ks : k <= j]>>

(* Stock of an item in its tracking mode, as the code reads it.            *)
stockOf(it) == IF it.trackBy = "unit" THEN OrZero(it.stockUnits) ELSE OrZero(it.stockKg)

(* -------------------------------- JSON --------------------------------- *)
(* JSON null, as a value read from an imported file: neither undefined nor *)
(* a finite number (null || 0 is 0, Number.isFinite(null) is false).       *)
Null == <<0, 0>>

ItemKeys == {"id", "trackBy", "pricePerUnit", "pricePerKg", "stockUnits", "stockKg"}

SaleKeys == {"id", "itemId", "qtyUnits", "qtyKg", "unitPrice", "kgPrice", "total", "note"}

OptionalKeys == {"pricePerUnit", "pricePerKg", "stockUnits", "stockKg",
                 "qtyUnits", "qtyKg", "unitPrice", "kgPrice", "total", "note"}

(* JSON.stringify of one object: a property whose value is undefined is    *)
(* left out; every other value is written as it is.                        *)
jsonObject_NoStock(r) ==
  [k \in {k \in DOMAIN r : k \notin {"stockUnits", "stockKg"}
                             /\ (k \notin OptionalKeys \/ r[k] # Undefined)} |-> r[k]]

jsonObject(r) ==
  [k \in {k \in DOMAIN r : k \notin OptionalKeys \/ r[k] # Undefined} |-> r[k]]

jsonArray(s) == [k \in 1..Len(s) |-> jsonObject(s[k])]

(* An object JSON.parse returned, as the code reads it: a property that is *)
(* not there reads undefined.                                              *)
readObject(j, keys) == [k \in keys |-> IF k \in DOMAIN j THEN j[k] ELSE Undefined]

readArray(a, keys) == [k \in 1..Len(a) |-> readObject(a[k], keys)]

(* ---------------------------- persistence ------------------------------ *)
Stored(v) == [kind |-> "array", val |-> v]

(* LS.set inside the persist effect of one key: runs when the state array  *)
(* was replaced; a throwing write is swallowed and leaves the key as is.   *)
(* What localStorage.setItem(key, JSON.stringify(value)) leaves under key. *)
Saved(value) == Stored(jsonArray(value))

LSset_Skip(old, value, changed, ok) == old

LSset(old, value, changed, ok) ==
  IF changed /\ ok THEN Saved(value) ELSE old

(* Other contents of a key: nothing (getItem gives null), a text that      *)
(* JSON.parse rejects, and valid JSON that is not an array.                *)
Absent == [kind |-> "absent", val |-> <<>>]

BadText == [kind |-> "unparseable", val |-> <<>>]

NotAnArray == [kind |-> "other", val |-> <<>>]

(* LS.get(key, []) : the fallback when the key is empty or the parse       *)
(* throws, and otherwise whatever JSON.parse returned.                     *)
LSget(stored, keys) ==
  IF stored.kind \in {"absent", "unparseable"} THEN [isArray |-> TRUE, val |-> <<>>]
  ELSE IF stored.kind = "array" THEN [isArray |-> TRUE, val |-> readArray(stored.val, keys)]
  ELSE [isArray |-> FALSE, val |-> <<>>]

(* The two persist effects after a commit, on keys holding oldI and oldS.  *)
PersistFrom(oldI, oldS, newItems, newSales, itemsSet, salesSet) ==
  \E okI, okS \in BOOLEAN :
    /\ (~itemsSet) => okI
    /\ (~salesSet) => okS
    /\ LET f == (IF okI THEN 0 ELSE 1) + (IF okS THEN 0 ELSE 1) IN
         /\ f <= failBudget
         /\ failBudget' = failBudget - f
    /\ lsItems' = LSset(oldI, newItems, itemsSet, okI)
    /\ lsSales' = LSset(oldS, newSales, salesSet, okS)

Persist(newItems, newSales, itemsSet, salesSet) ==
  PersistFrom(lsItems, lsSales, newItems, newSales, itemsSet, salesSet)

(* ----------------------------- statsByItem ----------------------------- *)
(* base.set(it.id, { soldUnits: 0, soldKg: 0, revenue: 0 }) for every item *)
statsBase_Ones(its) == [id \in Ids(its) |-> [soldUnits |-> 1, soldKg |-> 1, revenue |-> 1]]

statsBase(its) == [id \in Ids(its) |-> [soldUnits |-> 0, soldKg |-> 0, revenue |-> 0]]

(* One turn of `for (const s of sales)`: a sale without entry is skipped.  *)
statsStep_CountOrphans(base, s) ==
  LET st == IF s.itemId \in DOMAIN base THEN base[s.itemId]
            ELSE [soldUnits |-> 0, soldKg |-> 0, revenue |-> 0]
  IN (s.itemId :> [ soldUnits |-> Add(st.soldUnits, clampNonNeg(OrZero(s.qtyUnits))),
                    soldKg |-> Add(st.soldKg, clampNonNeg(OrZero(s.qtyKg))),
                    revenue |-> Add(st.revenue, clampNonNeg(OrZero(s.total))) ]) @@ base

statsStep(base, s) ==
  IF s.itemId \notin DOMAIN base THEN base
  ELSE [base EXCEPT ![s.itemId] =
          [ soldUnits |-> Add(@.soldUnits, clampNonNeg(OrZero(s.qtyUnits))),
            soldKg |-> Add(@.soldKg, clampNonNeg(OrZero(s.qtyKg))),
            revenue |-> Add(@.revenue, clampNonNeg(OrZero(s.total))) ]]

RECURSIVE statsFold(_, _)
statsFold(base, ss) ==
  IF ss = <<>> THEN base ELSE statsFold(statsStep(base, Head(ss)), Tail(ss))

statsByItem(its, ss) == statsFold(statsBase(its), ss)

(* ----------------------------- upsertItem ------------------------------ *)
newItem(partial, id) ==
  LET trackBy == IF "trackBy" \in DOMAIN partial THEN partial.trackBy ELSE "unit"
      f(k) == IF k \in DOMAIN partial THEN partial[k] ELSE Undefined
  IN [ id |-> id,
       trackBy |-> trackBy,
       pricePerUnit |-> f("pricePerUnit"),
       pricePerKg |-> f("pricePerKg"),
       stockUnits |-> IF trackBy = "unit" THEN Num(clampNonNeg(OrZero(f("stockUnits")))) ELSE Undefined,
       stockKg |-> IF trackBy = "kg" THEN Num(clampNonNeg(OrZero(f("stockKg")))) ELSE Undefined ]

(* ----------------------------- adjustStock ----------------------------- *)
adjustOne(i, id, deltaUnits, deltaKg) ==
  IF i.id # id THEN i
  ELSE IF i.trackBy = "unit"
       THEN [i EXCEPT !.stockUnits = Num(clampNonNeg(Add(OrZero(i.stockUnits), deltaUnits)))]
       ELSE [i EXCEPT !.stockKg = Num(clampNonNeg(Add(OrZero(i.stockKg), deltaKg)))]

adjustStock(prev, id, deltaUnits, deltaKg) ==
  [k \in 1..Len(prev) |-> adjustOne(prev[k], id, deltaUnits, deltaKg)]

(* ------------------------------- addSale ------------------------------- *)
(* Number.isFinite(payload.overridePrice) ? payload.overridePrice          *)
(*                                        : it.pricePerUnit || 0           *)
salePrice_CatalogOnly(overridePrice, catalog) == OrZero(catalog)

salePrice(overridePrice, catalog) ==
  IF IsFinite(overridePrice) THEN overridePrice[1] ELSE OrZero(catalog)

(* (it.stockUnits || 0) < q                                                *)
insufficientStock_Inverted(stock, q) == OrZero(stock) > q

insufficientStock(stock, q) == OrZero(stock) < q

(* if (q <= 0) return;                                                     *)
emptyQuantity_Never(q) == FALSE

emptyQuantity(q) == q <= 0

(* A handler that returns without calling a state setter; `alerted` tells  *)
(* whether it called alert() before returning.                             *)
NoChange_ClearsSales(prevItems, prevSales, alerted) ==
  [items |-> prevItems, sales |-> <<>>, itemsSet |-> FALSE, salesSet |-> TRUE, alert |-> alerted]

NoChange(prevItems, prevSales, alerted) ==
  [items |-> prevItems, sales |-> prevSales, itemsSet |-> FALSE, salesSet |-> FALSE, alert |-> alerted]

addSale(im, prevItems, prevSales, payload, newId) ==
  LET got == itemMapGet(im, payload.itemId) IN
  IF got = <<>> THEN NoChange(prevItems, prevSales, FALSE)
  ELSE
    LET it == got[1] IN
    IF it.trackBy = "unit"
    THEN LET q == clampNonNeg(OrZero(payload.qtyUnits))
             price == salePrice(payload.overridePrice, it.pricePerUnit)
             total == Mul(q, price)
             sale == [ id |-> newId, itemId |-> it.id,
                       qtyUnits |-> Num(q), qtyKg |-> Undefined,
                       unitPrice |-> Num(price), kgPrice |-> Undefined,
                       total |-> Num(total), note |-> payload.note ]
         IN IF emptyQuantity(q) THEN NoChange(prevItems, prevSales, FALSE)
            ELSE IF insufficientStock(it.stockUnits, q) THEN NoChange(prevItems, prevSales, TRUE)
            ELSE [ items |-> adjustStock(prevItems, it.id, 0 - q, 0),
                   sales |-> Prepend(sale, prevSales),
                   itemsSet |-> TRUE, salesSet |-> TRUE, alert |-> FALSE ]
    ELSE LET qkg == clampNonNeg(OrZero(payload.qtyKg))
             priceKg == salePrice(payload.overridePrice, it.pricePerKg)
             total == Mul(qkg, priceKg)
             sale == [ id |-> newId, itemId |-> it.id,
                       qtyUnits |-> Undefined, qtyKg |-> Num(qkg),
                       unitPrice |-> Undefined, kgPrice |-> Num(priceKg),
                       total |-> Num(total), note |-> payload.note ]
         IN IF emptyQuantity(qkg) THEN NoChange(prevItems, prevSales, FALSE)
            ELSE IF insufficientStock(it.stockKg, qkg) THEN NoChange(prevItems, prevSales, TRUE)
            ELSE [ items |-> adjustStock(prevItems, it.id, 0, 0 - qkg),
                   sales |-> Prepend(sale, prevSales),
                   itemsSet |-> TRUE, salesSet |-> TRUE, alert |-> FALSE ]

(* ------------------------------ updateSale ----------------------------- *)
(* { ...old, ...changes }: a key present in changes wins, also when its    *)
(* value is undefined.                                                     *)
Spread(old, changes) ==
  [k \in (DOMAIN old) \cup (DOMAIN changes) |->
     IF k \in DOMAIN changes THEN changes[k] ELSE old[k]]

(* Number.isFinite(next.unitPrice) ? next.unitPrice : it.pricePerUnit || 0 *)
editPrice_CatalogOnly(nextPrice, catalog) == OrZero(catalog)

editPrice(nextPrice, catalog) ==
  IF IsFinite(nextPrice) THEN nextPrice[1] ELSE OrZero(catalog)

(* delta > 0 && available < delta                                          *)
cannotIncrease_Never(available, delta) == FALSE

cannotIncrease(available, delta) == delta > 0 /\ available < delta

replaceSale_Keep(prev, saleId, next) == prev

replaceSale(prev, saleId, next) ==
  [k \in 1..Len(prev) |-> IF prev[k].id = saleId THEN next ELSE prev[k]]

updateSale(im, prevItems, prevSales, saleId, changes) ==
  LET found == findSale(prevSales, saleId) IN
  IF found = <<>> THEN NoChange(prevItems, prevSales, FALSE)
  ELSE
    LET old == found[1]
        got == itemMapGet(im, old.itemId)
    IN
    IF got = <<>> THEN NoChange(prevItems, prevSales, FALSE)
    ELSE
      LET it == got[1]
          next == Spread(old, changes)
      IN
      IF it.trackBy = "unit"
      THEN LET oldQty == clampNonNeg(OrZero(old.qtyUnits))
               newQty == clampNonNeg(OrZero(next.qtyUnits))
               delta == Sub(newQty, oldQty)
               available == OrZero(it.stockUnits)
               price == editPrice(next.unitPrice, it.pricePerUnit)
               next2 == [next EXCEPT !.total = Num(Mul(price, newQty))]
           IN IF delta # 0 /\ cannotIncrease(available, delta)
              THEN NoChange(prevItems, prevSales, TRUE)
              ELSE [ items |-> IF delta # 0 THEN adjustStock(prevItems, it.id, 0 - delta, 0)
                               ELSE prevItems,
                     sales |-> replaceSale(prevSales, saleId, next2),
                     itemsSet |-> (delta # 0), salesSet |-> TRUE, alert |-> FALSE ]
      ELSE LET oldKg == clampNonNeg(OrZero(old.qtyKg))
               newKg == clampNonNeg(OrZero(next.qtyKg))
               delta == Sub(newKg, oldKg)
               available == OrZero(it.stockKg)
               price == editPrice(next.kgPrice, it.pricePerKg)
               next2 == [next EXCEPT !.total = Num(Mul(price, newKg))]
           IN IF delta # 0 /\ cannotIncrease(available, delta)
              THEN NoChange(prevItems, prevSales, TRUE)
              ELSE [ items |-> IF delta # 0 THEN adjustStock(prevItems, it.id, 0, 0 - delta)
                               ELSE prevItems,
                     sales |-> replaceSale(prevSales, saleId, next2),
                     itemsSet |-> (delta # 0), salesSet |-> TRUE, alert |-> FALSE ]

(* ------------------------------ deleteSale ----------------------------- *)
Truthy(v) == IsFinite(v) /\ v[1] # 0

removeSale(prev, saleId) ==
  LET Keep(x) == x.id # saleId IN SeqFilter(Keep, prev)

deleteSale(im, prevItems, prevSales, saleId) ==
  LET found == findSale(prevSales, saleId) IN
  IF found = <<>> THEN NoChange(prevItems, prevSales, FALSE)
  ELSE
    LET s == found[1]
        got == itemMapGet(im, s.itemId)
        byUnit == got # <<>> /\ got[1].trackBy = "unit" /\ Truthy(s.qtyUnits)
        byKg == got # <<>> /\ got[1].trackBy = "kg" /\ Truthy(s.qtyKg)
        items1 == IF byUnit THEN adjustStock(prevItems, got[1].id, s.qtyUnits[1], 0) ELSE prevItems
        items2 == IF byKg THEN adjustStock(items1, got[1].id, 0, s.qtyKg[1]) ELSE items1
    IN [ items |-> items2, sales |-> removeSale(prevSales, saleId),
         itemsSet |-> (byUnit \/ byKg), salesSet |-> TRUE, alert |-> FALSE ]

(* ----------------------- upsertItem / deleteItem ------------------------ *)
upsertItemUpdate(prev, id, partial) ==
  [k \in 1..Len(prev) |-> IF prev[k].id = id THEN Spread(prev[k], partial) ELSE prev[k]]

(* const now = Date.now(); createdAt: now, updatedAt: now.                 *)
newItemTimes(now) == [createdAt |-> now, updatedAt |-> now]

upsertItemCreate_Append(prev, partial, newId) == Append(prev, newItem(partial, newId))

upsertItemCreate(prev, partial, newId) == Prepend(newItem(partial, newId), prev)

(* upsertItem with partial.id: only setItems is called.                    *)
upsertItem_Reprice(prevItems, prevSales, id, partial) ==
  LET its == upsertItemUpdate(prevItems, id, partial)
      cat(it) == IF it.trackBy = "unit" THEN it.pricePerUnit ELSE it.pricePerKg
      qty(s, it) == IF it.trackBy = "unit" THEN s.qtyUnits ELSE s.qtyKg
      re(s) == IF s.itemId = id /\ itemMapGet(its, id) # <<>>
               THEN [s EXCEPT !.total = Num(Mul(OrZero(qty(s, itemMapGet(its, id)[1])),
                                                OrZero(cat(itemMapGet(its, id)[1]))))]
               ELSE s
  IN [ items |-> its, sales |-> [k \in 1..Len(prevSales) |-> re(prevSales[k])],
       itemsSet |-> TRUE, salesSet |-> TRUE, alert |-> FALSE ]

upsertItem(prevItems, prevSales, id, partial) ==
  [ items |-> upsertItemUpdate(prevItems, id, partial), sales |-> prevSales,
    itemsSet |-> TRUE, salesSet |-> FALSE, alert |-> FALSE ]

deleteItem_NoCascade(prevItems, prevSales, id, alsoDeleteSales) ==
  LET KeepItem(i) == i.id # id
  IN [ items |-> SeqFilter(KeepItem, prevItems), sales |-> prevSales,
       itemsSet |-> TRUE, salesSet |-> FALSE, alert |-> FALSE ]

deleteItem(prevItems, prevSales, id, alsoDeleteSales) ==
  LET KeepItem(i) == i.id # id
      KeepSale(s) == s.itemId # id
  IN [ items |-> SeqFilter(KeepItem, prevItems),
       sales |-> IF alsoDeleteSales THEN SeqFilter(KeepSale, prevSales) ELSE prevSales,
       itemsSet |-> TRUE, salesSet |-> alsoDeleteSales, alert |-> FALSE ]

(* The payload InventoryTab.submit builds from the form.                   *)
formPartial(trackBy, price, stock) ==
  [ trackBy |-> trackBy,
    pricePerUnit |-> IF trackBy = "unit" THEN Num(price) ELSE Undefined,
    pricePerKg |-> IF trackBy = "kg" THEN Num(price) ELSE Undefined,
    stockUnits |-> IF trackBy = "unit" THEN stock ELSE Undefined,
    stockKg |-> IF trackBy = "kg" THEN stock ELSE Undefined ]

ItemPartials ==
  {formPartial(t, p, s) : t \in TrackBys, p \in PriceInputs, s \in EditStockInputs}
    \cup {[pricePerUnit |-> Num(p)] : p \in EditPriceInputs}
    \cup {[pricePerKg |-> Num(p)] : p \in EditPriceInputs}

(* Changes handed to updateSale for a sale of an item tracked by `mode`:   *)
(* what EditableSaleCard.save builds, and edits that omit the price.       *)
SaleChanges(mode) ==
  IF mode = "unit"
  THEN {[qtyUnits |-> q, unitPrice |-> p, note |-> n] : q \in QtyInputs, p \in OverrideInputs, n \in NoteInputs}
         \cup {[qtyUnits |-> q] : q \in QtyInputs}
  ELSE {[qtyKg |-> q, kgPrice |-> p, note |-> n] : q \in QtyInputs, p \in OverrideInputs, n \in NoteInputs}
         \cup {[qtyKg |-> q] : q \in QtyInputs}

(* Tracking mode of the item a sale refers to ("unit" when there is none). *)
modeOfSale(im, prev, saleId) ==
  LET found == findSale(prev, saleId)
      got == IF found = <<>> THEN <<>> ELSE itemMapGet(im, found[1].itemId)
  IN IF got = <<>> THEN "unit" ELSE got[1].trackBy

(* ------------------------ exportJson / importJson ---------------------- *)
(* The value of parsed.items / parsed.sales: an array, no such property,   *)
(* or a value that is not an array.                                        *)
Missing == [kind |-> "missing", val |-> <<>>]

NotArray == [kind |-> "other", val |-> <<>>]

Envelope(its, ss) ==
  [kind |-> "object", version |-> 2, exportedAt |-> "now", items |-> its, sales |-> ss]

(* A file on which JSON.parse, or the read of parsed.items, throws.        *)
Unparseable == [kind |-> "unparseable"]

exportJson(its, ss) == Envelope(Stored(jsonArray(its)), Stored(jsonArray(ss)))

(* Array.isArray(parsed.items) && Array.isArray(parsed.sales), inside try. *)
validBackup_ItemsOnly(parsed) == parsed.kind = "object" /\ parsed.items.kind = "array"

validBackup(parsed) ==
  parsed.kind = "object" /\ parsed.items.kind = "array" /\ parsed.sales.kind = "array"

importJson(prevItems, prevSales, parsed) ==
  IF ~validBackup(parsed) THEN NoChange(prevItems, prevSales, TRUE)
  ELSE [ items |-> readArray(parsed.items.val, ItemKeys),
         sales |-> readArray(parsed.sales.val, SaleKeys),
         itemsSet |-> TRUE, salesSet |-> TRUE, alert |-> FALSE ]

(* Files written by hand: one unit item; a sale of it that stores a        *)
(* negative quantity and total, and a sale that refers to no item.         *)
HandItems ==
  << [id |-> 1, trackBy |-> "unit", pricePerUnit |-> Num(1), stockUnits |-> Num(6)] >>

HandSales ==
  << [id |-> 2, itemId |-> 1, qtyUnits |-> Num(-1), unitPrice |-> Num(3), kgPrice |-> Null,
      total |-> Num(-3)],
     [id |-> 3, itemId |-> 3, qtyUnits |-> Num(1), unitPrice |-> Num(1), total |-> Num(1)] >>

ImportFiles(b) ==
  (IF b.kind = "file" THEN {b.file} ELSE {})
    \cup {Unparseable}
    \cup {Envelope(Missing, Stored(HandSales)), Envelope(Stored(HandItems), Missing),
          Envelope(NotArray, Stored(HandSales)), Envelope(Stored(HandItems), NotArray),
          Envelope(Stored(HandItems), Stored(HandSales))}

(* ------------------------------- actions ------------------------------- *)
(* uid(): an id that no item and no sale of the state holds or refers to.  *)
UsedUids == Ids(items) \cup Ids(sales) \cup {sales[k].itemId : k \in 1..Len(sales)}

FreeUids == Uids \ UsedUids

uid == CHOOSE u \in FreeUids : \A v \in FreeUids : u <= v

(* An id that matches no element of the collection (at most one is tried). *)
MissingId(s) ==
  LET free == Uids \ Ids(s) IN
  IF free = {} THEN {} ELSE {CHOOSE u \in free : \A v \in free : u <= v}

Init ==
  /\ items = <<>>
  /\ sales = <<>>
  /\ lsItems = Stored(<<>>)
  /\ lsSales = Stored(<<>>)
  /\ failBudget = 0
  /\ steps = 0
  /\ last = [op |-> "init"]
  /\ backup = [kind |-> "none"]

(* ------------------------------- resetAll ------------------------------ *)
(* After confirm(): setItems([]) and setSales([]).                         *)
resetAll_KeepSales(prevItems, prevSales) ==
  [items |-> <<>>, sales |-> prevSales, itemsSet |-> TRUE, salesSet |-> FALSE, alert |-> FALSE]

resetAll(prevItems, prevSales) ==
  [items |-> <<>>, sales |-> <<>>, itemsSet |-> TRUE, salesSet |-> TRUE, alert |-> FALSE]

(* ------------------------------- start-up ------------------------------ *)
(* useState(() => LS.get(KEY, [])) for both keys and the first render.  A  *)
(* loaded value that is not an array makes the first render throw          *)
(* (items.map, for ... of sales): nothing is mounted and no effect runs.   *)
loadApp(hadItems, hadSales) ==
  LET li == LSget(hadItems, ItemKeys)
      ls == LSget(hadSales, SaleKeys)
  IN [items |-> li.val, sales |-> ls.val, fatal |-> (~li.isArray \/ ~ls.isArray)]

StoredItemsInputs == {Absent, BadText, NotAnArray, Stored(HandItems)}

StoredSalesInputs == {Absent, BadText, NotAnArray, Stored(HandSales)}

(* The application whose first render threw: no handler can be called.     *)
Crashed == last.op = "load" /\ last.fatal

(* Commit of one handler's result: the new state arrays, the persist       *)
(* effects of the arrays that were replaced, and the record of the call.   *)
CommitFrom(oldI, oldS, r, call) ==
  /\ ~Crashed
  /\ steps < MaxSteps
  /\ steps' = steps + 1
  /\ items' = r.items
  /\ sales' = r.sales
  /\ PersistFrom(oldI, oldS, r.items, r.sales, r.itemsSet, r.salesSet)
  /\ UNCHANGED backup
  /\ last' = call @@ [preItems |-> items, preSales |-> sales, alert |-> r.alert,
                      itemsSet |-> r.itemsSet, salesSet |-> r.salesSet]

Commit(r, call) == CommitFrom(lsItems, lsSales, r, call)

StockWithin(its) == \A k \in 1..Len(its) : stockOf(its[k]) <= MaxStock

CreateItem ==
  \E t \in TrackBys, p \in PriceInputs, s \in StockInputs :
    /\ Len(items) < MaxItems
    /\ FreeUids # {}
    /\ Commit([ items |-> upsertItemCreate(items, formPartial(t, p, s), uid),
                sales |-> sales, itemsSet |-> TRUE, salesSet |-> FALSE, alert |-> FALSE ],
              [op |-> "createItem", partial |-> formPartial(t, p, s), uid |-> uid,
               times |-> newItemTimes(steps)])

UpdateItem ==
  \E id \in Ids(items), partial \in ItemPartials :
    /\ Commit(upsertItem(items, sales, id, partial),
              [op |-> "updateItem", id |-> id, partial |-> partial])

DeleteItem ==
  \E id \in Ids(items), also \in BOOLEAN :
    /\ Commit(deleteItem(items, sales, id, also),
              [op |-> "deleteItem", id |-> id, also |-> also])

AdjustStock ==
  \E id \in Ids(items), d \in DeltaInputs :
    LET mode == itemMapGet(items, id)[1].trackBy
        dU == IF mode = "unit" THEN d ELSE 0
        dK == IF mode = "kg" THEN d ELSE 0
        r == [ items |-> adjustStock(items, id, dU, dK), sales |-> sales,
               itemsSet |-> TRUE, salesSet |-> FALSE, alert |-> FALSE ]
    IN /\ StockWithin(r.items)
          /\ Commit(r, [op |-> "adjustStock", id |-> id, deltaUnits |-> dU, deltaKg |-> dK])

AddSale ==
  \E itemId \in Ids(items) \cup MissingId(items), q \in SellQtyInputs, o \in OverrideInputs :
    LET mode == IF itemMapGet(items, itemId) = <<>> THEN "unit" ELSE itemMapGet(items, itemId)[1].trackBy
        n == <<"n">>
        payload == [ itemId |-> itemId,
                     qtyUnits |-> IF mode = "unit" THEN q ELSE Undefined,
                     qtyKg |-> IF mode = "kg" THEN q ELSE Undefined,
                     overridePrice |-> o, note |-> n ]
    IN /\ Len(sales) < MaxSales
       /\ FreeUids # {}
       /\ Commit(addSale(items, items, sales, payload, uid),
                 [op |-> "addSale", payload |-> payload, uid |-> uid])

UpdateSale ==
  \E saleId \in Ids(sales) \cup MissingId(sales) :
  \E changes \in SaleChanges(modeOfSale(items, sales, saleId)) :
    LET r == updateSale(items, items, sales, saleId, changes) IN
    /\ StockWithin(r.items)
    /\ Commit(r, [op |-> "updateSale", saleId |-> saleId, changes |-> changes])

DeleteSale ==
  \E saleId \in Ids(sales) \cup MissingId(sales) :
    LET r == deleteSale(items, items, sales, saleId) IN
    /\ StockWithin(r.items)
    /\ Commit(r, [op |-> "deleteSale", saleId |-> saleId])

(* Reset Data: when confirmed, the setters, then removeItem on both keys,  *)
(* then the persist effects of the new arrays on the emptied keys.         *)
ResetAll ==
  \E confirmed \in BOOLEAN :
    IF confirmed
    THEN CommitFrom(Absent, Absent, resetAll(items, sales),
                    [op |-> "resetAll", confirmed |-> TRUE])
    ELSE Commit(NoChange(items, sales, FALSE), [op |-> "resetAll", confirmed |-> FALSE])

Next ==
  \/ CreateItem
  \/ UpdateItem
  \/ DeleteItem
  \/ AdjustStock
  \/ AddSale
  \/ UpdateSale
  \/ DeleteSale
  \/ ResetAll

Spec == Init /\ [][Next]_vars

(* The ledger without item edits and deletions: items come from createItem *)
(* only.                                                                   *)
NextLedger ==
  \/ CreateItem
  \/ AdjustStock
  \/ AddSale
  \/ UpdateSale
  \/ DeleteSale

SpecLedger == Init /\ [][NextLedger]_vars

(* The ledger with the Restock button as the only direct stock change.     *)
Restock ==
  \E id \in Ids(items), n \in RestockInputs :
    LET mode == itemMapGet(items, id)[1].trackBy
        r == IF n > 0
             THEN [ items |-> IF mode = "unit" THEN adjustStock(items, id, n, 0)
                                               ELSE adjustStock(items, id, 0, n),
                    sales |-> sales, itemsSet |-> TRUE, salesSet |-> FALSE, alert |-> FALSE ]
             ELSE NoChange(items, sales, FALSE)
    IN /\ StockWithin(r.items)
       /\ Commit(r, [op |-> "restock", id |-> id, n |-> n])

NextRestock ==
  \/ CreateItem
  \/ Restock
  \/ AddSale
  \/ UpdateSale
  \/ DeleteSale

SpecRestock == Init /\ [][NextRestock]_vars

(* Two addSale calls made from one render: both read the itemMap of that   *)
(* render, and their updater functions are applied one after the other.    *)
AddSaleBatch ==
  \E itemId \in Ids(items), q1 \in BatchQtyInputs, q2 \in BatchQtyInputs :
    LET mode == itemMapGet(items, itemId)[1].trackBy
        payload(q) == [ itemId |-> itemId,
                        qtyUnits |-> IF mode = "unit" THEN q ELSE Undefined,
                        qtyKg |-> IF mode = "kg" THEN q ELSE Undefined,
                        overridePrice |-> Undefined, note |-> <<"n">> ]
        rest == FreeUids \ {uid}
        uid2 == CHOOSE u \in rest : \A v \in rest : u <= v
        r1 == addSale(items, items, sales, payload(q1), uid)
        r2 == addSale(items, r1.items, r1.sales, payload(q2), uid2)
    IN /\ Len(sales) + 2 <= MaxSales
       /\ Cardinality(FreeUids) >= 2
       /\ Commit([ items |-> r2.items, sales |-> r2.sales,
                   itemsSet |-> (r1.itemsSet \/ r2.itemsSet),
                   salesSet |-> (r1.salesSet \/ r2.salesSet),
                   alert |-> (r1.alert \/ r2.alert) ],
                 [op |-> "addSaleBatch", itemId |-> itemId,
                  first |-> payload(q1), second |-> payload(q2)])

NextBatch ==
  \/ CreateItem
  \/ AdjustStock
  \/ AddSale
  \/ AddSaleBatch
  \/ DeleteSale

SpecBatch == Init /\ [][NextBatch]_vars

(* The ledger on a storage whose writes may throw.                         *)
InitStorage ==
  /\ items = <<>>
  /\ sales = <<>>
  /\ lsItems = Stored(<<>>)
  /\ lsSales = Stored(<<>>)
  /\ failBudget = MaxWriteFailures
  /\ steps = 0
  /\ last = [op |-> "init"]
  /\ backup = [kind |-> "none"]

SpecStorage == InitStorage /\ [][NextLedger]_vars

(* Export: the file handed to the user, kept with the collections it was   *)
(* taken from.  No state setter is called.                                 *)
ExportJson ==
  /\ steps < MaxSteps
  /\ steps' = steps + 1
  /\ backup' = [kind |-> "file", file |-> exportJson(items, sales),
                ofItems |-> items, ofSales |-> sales]
  /\ last' = [op |-> "exportJson"]
  /\ UNCHANGED <<items, sales, lsItems, lsSales, failBudget>>

(* Import (reader.onload) of the exported file or of a file made by hand.  *)
ImportJson ==
  \E file \in ImportFiles(backup) :
    Commit(importJson(items, sales, file), [op |-> "importJson", file |-> file])

(* The ledger with backup and restore.                                     *)
NextBackup ==
  \/ CreateItem
  \/ AddSale
  \/ UpdateSale
  \/ ExportJson
  \/ ImportJson

SpecBackup == Init /\ [][NextBackup]_vars

(* The application started on a storage that already holds something: the *)
(* state after the first render and the mount run of the persist effects.  *)
InitLoad ==
  \E hadItems \in StoredItemsInputs, hadSales \in StoredSalesInputs :
    LET r == loadApp(hadItems, hadSales) IN
    /\ items = r.items
    /\ sales = r.sales
    /\ lsItems = IF r.fatal THEN hadItems ELSE Saved(r.items)
    /\ lsSales = IF r.fatal THEN hadSales ELSE Saved(r.sales)
    /\ failBudget = 0
    /\ steps = 0
    /\ last = [op |-> "load", hadItems |-> hadItems, hadSales |-> hadSales, fatal |-> r.fatal]
    /\ backup = [kind |-> "none"]

(* The handlers used after such a start.                                   *)
NextLoad ==
  \/ CreateItem
  \/ AddSale
  \/ DeleteSale

SpecLoad == InitLoad /\ [][NextLoad]_vars

(* ------------------------------ v1 variant ----------------------------- *)
(* The earlier variant of the application: items are id, price and         *)
(* createdAt; sales are id, itemId, qty, price and timestamp. The clock is *)
(* the number of calls made, and V1Day clock ticks are 24 hours.           *)
V1Day == 2

(* parsed.filter(i => Date.now() - i.createdAt < 24 * 60 * 60 * 1000)      *)
v1Fresh(parsed, now) ==
  LET Keep(i) == now - i.createdAt < V1Day IN SelectSeq(parsed, Keep)

(* The load effect, one try block: the items key is read, parsed and       *)
(* filtered first, then the sales key is read and parsed. JSON.parse of a  *)
(* malformed text throws, and so does parsed.filter of a value that is not *)
(* an array; the catch logs, and what followed in the block is skipped.    *)
v1Load(hadItems, hadSales, now) ==
  LET itemsThrow == hadItems.kind \in {"unparseable", "other"}
      itemsRead == hadItems.kind = "array"
      fresh == IF itemsRead THEN v1Fresh(hadItems.val, now) ELSE <<>>
      salesRead == ~itemsThrow /\ hadSales.kind = "array"
  IN [ items |-> fresh, itemsSet |-> itemsRead,
       sales |-> IF salesRead THEN hadSales.val ELSE <<>>, salesSet |-> salesRead,
       lsItems |-> IF itemsRead /\ Len(fresh) # Len(hadItems.val) THEN Saved(fresh) ELSE hadItems,
       threw |-> (itemsThrow \/ hadSales.kind = "unparseable") ]

(* Mount to settled state: after the first render (items = [], sales = []) *)
(* the load effect runs, then both persist effects write the empty arrays  *)
(* of that render; the render that follows runs the persist effect of each *)
(* collection the load effect has set.                                     *)
v1Startup(hadItems, hadSales, now) ==
  LET l == v1Load(hadItems, hadSales, now)
      mountItems == Saved(<<>>)
      mountSales == Saved(<<>>)
  IN [ items |-> l.items,
       sales |-> l.sales,
       lsItems |-> IF l.itemsSet THEN Saved(l.items) ELSE mountItems,
       lsSales |-> IF l.salesSet THEN Saved(l.sales) ELSE mountSales,
       threw |-> l.threw ]

V1FreshItem == [id |-> 1, price |-> 1, createdAt |-> 0]

V1OldItem == [id |-> 2, price |-> 2, createdAt |-> 0 - V1Day]

V1StoredItemsInputs ==
  { Absent, BadText, NotAnArray, Stored(<<>>), Stored(<<V1FreshItem>>),
    Stored(<<V1FreshItem, V1OldItem>>) }

V1StoredSalesInputs ==
  { Absent, BadText,
    Stored(<<[id |-> 3, itemId |-> 1, qty |-> 1, price |-> 1, timestamp |-> 0]>>) }

V1QtyInputs == {0, 1}

InitV1 ==
  \E hadItems \in V1StoredItemsInputs, hadSales \in V1StoredSalesInputs :
    LET r == v1Startup(hadItems, hadSales, 0) IN
    /\ items = r.items
    /\ sales = r.sales
    /\ lsItems = r.lsItems
    /\ lsSales = r.lsSales
    /\ failBudget = 0
    /\ steps = 0
    /\ last = [op |-> "v1start", hadItems |-> hadItems, hadSales |-> hadSales, threw |-> r.threw]
    /\ backup = [kind |-> "none"]

(* A state change of the running v1 application and the persist effect of  *)
(* each collection that was replaced.                                      *)
V1Commit(newItems, newSales, itemsSet, salesSet, call) ==
  /\ steps < MaxSteps
  /\ steps' = steps + 1
  /\ items' = newItems
  /\ sales' = newSales
  /\ lsItems' = IF itemsSet THEN Saved(newItems) ELSE lsItems
  /\ lsSales' = IF salesSet THEN Saved(newSales) ELSE lsSales
  /\ last' = call
  /\ UNCHANGED <<failBudget, backup>>

(* addItem: a price that is not > 0 alerts and changes nothing.            *)
V1AddItem ==
  \E p \in {0} \cup PriceInputs :
    /\ Len(items) < MaxItems
    /\ FreeUids # {}
    /\ IF p <= 0
       THEN V1Commit(items, sales, FALSE, FALSE, [op |-> "v1addItem", price |-> p])
       ELSE V1Commit(Prepend([id |-> uid, price |-> p, createdAt |-> steps], items), sales,
                     TRUE, FALSE, [op |-> "v1addItem", price |-> p])

(* onDelete: setItems(items.filter(i => i.id !== id))                      *)
V1DeleteItem ==
  \E id \in Ids(items) :
    LET Keep(i) == i.id # id IN
    V1Commit(SelectSeq(items, Keep), sales, TRUE, FALSE, [op |-> "v1deleteItem", id |-> id])

(* saveSale of the selected item at its price, then onCreateSale.          *)
V1CreateSale ==
  \E k \in 1..Len(items), q \in V1QtyInputs :
    /\ Len(sales) < MaxSales
    /\ FreeUids # {}
    /\ IF q <= 0
       THEN V1Commit(items, sales, FALSE, FALSE, [op |-> "v1createSale", qty |-> q])
       ELSE V1Commit(items,
                     Prepend([id |-> uid, itemId |-> items[k].id, qty |-> q,
                              price |-> items[k].price, timestamp |-> steps], sales),
                     FALSE, TRUE, [op |-> "v1createSale", qty |-> q])

(* The page is opened again on what the keys hold.                         *)
V1Restart ==
  LET r == v1Startup(lsItems, lsSales, steps + 1) IN
  /\ steps < MaxSteps
  /\ steps' = steps + 1
  /\ items' = r.items
  /\ sales' = r.sales
  /\ lsItems' = r.lsItems
  /\ lsSales' = r.lsSales
  /\ last' = [op |-> "v1start", hadItems |-> lsItems, hadSales |-> lsSales, threw |-> r.threw]
  /\ UNCHANGED <<failBudget, backup>>

NextV1 ==
  \/ V1AddItem
  \/ V1DeleteItem
  \/ V1CreateSale
  \/ V1Restart

SpecV1 == InitV1 /\ [][NextV1]_vars

(* ======================================================================= *)
(*                               Properties                                *)
(* ======================================================================= *)
(* Fields of the tracking mode of an item.                                 *)
modeStock(it) == IF it.trackBy = "unit" THEN it.stockUnits ELSE it.stockKg

modeCatalog(it) == IF it.trackBy = "unit" THEN it.pricePerUnit ELSE it.pricePerKg

modeQty(x, it) == IF it.trackBy = "unit" THEN x.qtyUnits ELSE x.qtyKg

modePrice(s, it) == IF it.trackBy = "unit" THEN s.unitPrice ELSE s.kgPrice

withStock(it, v) ==
  IF it.trackBy = "unit" THEN [it EXCEPT !.stockUnits = v] ELSE [it EXCEPT !.stockKg = v]

AtLeastZero(n) == IF n > 0 THEN n ELSE 0

(* The item an addSale call named, as it was when the call was made.       *)
SoldItem == itemMapGet(last.preItems, last.payload.itemId)

SoldQty == AtLeastZero(OrZero(modeQty(last.payload, SoldItem[1])))

(* C1: after any sequence of adjustStock, addSale, updateSale and          *)
(* deleteSale calls on items made by createItem, the stock of every item   *)
(* in its tracking mode is a number >= 0.                                  *)
C1_StockNonNegative ==
  \A k \in 1..Len(items) :
    IsFinite(modeStock(items[k])) /\ modeStock(items[k])[1] >= 0

(* A negative adjustment larger than the stock has been floored at 0.      *)
C1_Witness ==
  /\ last.op = "adjustStock"
  /\ \E k \in 1..Len(items) :
       /\ items[k].id = last.id
       /\ stockOf(last.preItems[k]) > 0
       /\ stockOf(last.preItems[k]) + last.deltaUnits + last.deltaKg < 0
       /\ stockOf(items[k]) = 0

(* C2: addSale for an existing item with a requested quantity above the    *)
(* item's stock is rejected: items and sales are exactly as before.        *)
C2_OversellRejected ==
  (/\ last.op = "addSale"
   /\ SoldItem # <<>>
   /\ SoldQty > stockOf(SoldItem[1]))
  => (items = last.preItems /\ sales = last.preSales)

C2_Witness ==
  /\ last.op = "addSale"
  /\ SoldItem # <<>>
  /\ stockOf(SoldItem[1]) > 0
  /\ SoldQty > stockOf(SoldItem[1])
  /\ last.alert
  /\ Len(sales) >= 1

(* C3: addSale for an existing item with 0 < q <= stock puts exactly one   *)
(* new Sale at the front of sales, with quantity q, price p (the override  *)
(* price when finite, else the catalog price) and total q * p; it lowers   *)
(* that item's stock by q and changes no other item and no other sale.     *)
C3_SaleRecorded ==
  (/\ last.op = "addSale"
   /\ SoldItem # <<>>
   /\ SoldQty > 0
   /\ SoldQty <= stockOf(SoldItem[1]))
  => LET it == SoldItem[1]
         q == SoldQty
         p == IF IsFinite(last.payload.overridePrice) THEN last.payload.overridePrice[1]
              ELSE OrZero(modeCatalog(it))
     IN /\ Len(sales) = Len(last.preSales) + 1
        /\ Tail(sales) = last.preSales
        /\ Head(sales).id \notin Ids(last.preSales)
        /\ Head(sales).itemId = it.id
        /\ modeQty(Head(sales), it) = Num(q)
        /\ modePrice(Head(sales), it) = Num(p)
        /\ Head(sales).total = Num(Fl(q * p))
        /\ Len(items) = Len(last.preItems)
        /\ \A k \in 1..Len(items) :
             items[k] = IF last.preItems[k].id = it.id
                        THEN withStock(last.preItems[k], Num(Fl(stockOf(it) - q)))
                        ELSE last.preItems[k]

(* A sale at an override price was recorded next to another sale and       *)
(* another item.                                                           *)
C3_Witness ==
  /\ last.op = "addSale"
  /\ SoldItem # <<>>
  /\ SoldQty > 0
  /\ SoldQty <= stockOf(SoldItem[1])
  /\ IsFinite(last.payload.overridePrice)
  /\ Len(last.preSales) >= 1
  /\ Len(items) >= 2
  /\ Len(sales) = Len(last.preSales) + 1

(* C4: an accepted addSale followed at once by deleteSale of the new Sale   *)
(* leaves the item's stock at its value before the sale and the sales as   *)
(* they were before the sale.                                              *)
C4_SellThenDeleteRestores ==
  [][ (/\ last.op = "addSale"
       /\ SoldItem # <<>>
       /\ SoldQty > 0
       /\ SoldQty <= stockOf(SoldItem[1])
       /\ last'.op = "deleteSale"
       /\ last'.saleId = last.uid)
      => (/\ sales' = last.preSales
          /\ itemMapGet(items', SoldItem[1].id) # <<>>
          /\ stockOf(itemMapGet(items', SoldItem[1].id)[1]) = stockOf(SoldItem[1])) ]_vars

(* The sale an updateSale call named and its item, as they were when the   *)
(* call was made; the quantities the call compares.                        *)
EditedSale == findSale(last.preSales, last.saleId)

EditedItem == itemMapGet(last.preItems, EditedSale[1].itemId)

qtyKey(it) == IF it.trackBy = "unit" THEN "qtyUnits" ELSE "qtyKg"

priceKey(it) == IF it.trackBy = "unit" THEN "unitPrice" ELSE "kgPrice"

EditApplies == last.op = "updateSale" /\ EditedSale # <<>> /\ EditedItem # <<>>

EditOldQty == AtLeastZero(OrZero(modeQty(EditedSale[1], EditedItem[1])))

EditNewQty ==
  LET k == qtyKey(EditedItem[1]) IN
  AtLeastZero(OrZero(IF k \in DOMAIN last.changes THEN last.changes[k] ELSE EditedSale[1][k]))

EditDelta == Fl(EditNewQty - EditOldQty)

EditAccepted == EditDelta <= 0 \/ stockOf(EditedItem[1]) >= EditDelta

(* C5: updateSale that raises the quantity by delta > 0 while the stock is *)
(* below delta changes nothing: the Sale keeps every field and the stock   *)
(* is as before.                                                           *)
C5_IncreaseRejected ==
  (EditApplies /\ EditDelta > 0 /\ stockOf(EditedItem[1]) < EditDelta)
  => (sales = last.preSales /\ items = last.preItems)

(* A rejected edit that also asked for another price and another note.     *)
C5_Witness ==
  /\ EditApplies
  /\ EditDelta > 0
  /\ stockOf(EditedItem[1]) < EditDelta
  /\ last.alert
  /\ priceKey(EditedItem[1]) \in DOMAIN last.changes
  /\ last.changes[priceKey(EditedItem[1])] # modePrice(EditedSale[1], EditedItem[1])
  /\ "note" \in DOMAIN last.changes
  /\ last.changes.note # EditedSale[1].note

(* C6: an accepted updateSale changes the item's stock by -delta, where    *)
(* delta = newQty - oldQty, and sets the Sale's total to newQty times the  *)
(* resolved price (the Sale's price when finite, else the catalog price).  *)
C6_EditReconciles ==
  (EditApplies /\ EditAccepted)
  => LET it == EditedItem[1]
         now == itemMapGet(items, it.id)
         s == findSale(sales, last.saleId)
         p == IF s # <<>> /\ IsFinite(modePrice(s[1], it)) THEN modePrice(s[1], it)[1]
              ELSE OrZero(modeCatalog(it))
     IN /\ now # <<>>
        /\ stockOf(now[1]) = Fl(stockOf(it) - EditDelta)
        /\ s # <<>>
        /\ s[1].total = Num(Fl(EditNewQty * p))

(* The sold quantity went down by 1 and the stock up by 1.                 *)
C6_Witness ==
  /\ EditApplies
  /\ EditDelta = 0 - 1
  /\ stockOf(itemMapGet(items, EditedItem[1].id)[1]) = stockOf(EditedItem[1]) + 1
  /\ EditNewQty > 0

(* C7: after addSale, updateSale or deleteSale changed both collections,   *)
(* the persisted pair shows the new sales exactly when it shows the new    *)
(* stock (each key holding either its value before the call or after it).  *)
C7_PersistedPairAtomic ==
  (/\ last.op \in {"addSale", "updateSale", "deleteSale"}
   /\ items # last.preItems
   /\ sales # last.preSales
   /\ lsItems \in {Saved(last.preItems), Saved(items)}
   /\ lsSales \in {Saved(last.preSales), Saved(sales)})
  => (lsItems = Saved(items) <=> lsSales = Saved(sales))

(* The sale a deleteSale call named and its item, as they were before.     *)
DeletedSale == findSale(last.preSales, last.saleId)

DeletedItem == itemMapGet(last.preItems, DeletedSale[1].itemId)

(* C8: deleteSale of an existing Sale whose item exists raises that item's *)
(* stock by the quantity recorded on the Sale and removes exactly that     *)
(* Sale.                                                                   *)
C8_DeleteRestoresQuantity ==
  (last.op = "deleteSale" /\ DeletedSale # <<>> /\ DeletedItem # <<>>)
  => LET s == DeletedSale[1]
         it == DeletedItem[1]
         KeepOthers(x) == x.id # s.id
     IN /\ sales = SeqFilter(KeepOthers, last.preSales)
        /\ Len(items) = Len(last.preItems)
        /\ \A k \in 1..Len(items) :
             items[k] = IF last.preItems[k].id = it.id
                        THEN withStock(last.preItems[k],
                                       Num(Fl(stockOf(it) + OrZero(modeQty(s, it)))))
                        ELSE last.preItems[k]

EditOmitsPrice == EditApplies /\ EditAccepted /\ priceKey(EditedItem[1]) \notin DOMAIN last.changes

(* C9 as stated: when the changes omit the price, the total is recomputed  *)
(* with the item's current catalog price.                                  *)
C9_OmittedPriceUsesCatalog ==
  EditOmitsPrice
  => findSale(sales, last.saleId)[1].total =
       Num(Fl(EditNewQty * OrZero(modeCatalog(EditedItem[1]))))

(* C9 amended: when the changes omit the price, the total is recomputed    *)
(* with the price stored on the Sale when that is finite, and with the     *)
(* item's current catalog price only when the stored price is not finite.  *)
C9_OmittedPriceKeepsSnapshot ==
  EditOmitsPrice
  => LET old == modePrice(EditedSale[1], EditedItem[1])
         p == IF IsFinite(old) THEN old[1] ELSE OrZero(modeCatalog(EditedItem[1]))
     IN findSale(sales, last.saleId)[1].total = Num(Fl(EditNewQty * p))

(* An edit without price on a Sale whose stored price differs from the     *)
(* catalog price.                                                          *)
C9_Witness ==
  /\ EditOmitsPrice
  /\ EditNewQty > 0
  /\ IsFinite(modePrice(EditedSale[1], EditedItem[1]))
  /\ modePrice(EditedSale[1], EditedItem[1])[1] # OrZero(modeCatalog(EditedItem[1]))

(* C10: every Sale (of an existing item) has total = quantity * price, the *)
(* quantity and the price being the values stored on the Sale for the      *)
(* item's tracking mode.                                                   *)
C10_TotalIsQtyTimesPrice ==
  \A k \in 1..Len(sales) :
    LET got == itemMapGet(items, sales[k].itemId) IN
    got # <<>> =>
      sales[k].total = Num(Fl(OrZero(modeQty(sales[k], got[1])) * OrZero(modePrice(sales[k], got[1]))))

(* C11: updateItem that carries a catalog price leaves every Sale as it    *)
(* was (price snapshot and total included) and leaves the revenue that     *)
(* statsByItem reports for every item unchanged.                           *)
PriceEdit ==
  /\ last.op = "updateItem"
  /\ {"pricePerUnit", "pricePerKg"} \cap DOMAIN last.partial # {}

C11_PriceChangeKeepsHistory ==
  PriceEdit
  => /\ sales = last.preSales
     /\ \A id \in Ids(last.preItems) :
          /\ id \in DOMAIN statsByItem(items, sales)
          /\ statsByItem(items, sales)[id].revenue
               = statsByItem(last.preItems, last.preSales)[id].revenue

(* The catalog price of an item with revenue was changed.                  *)
C11_Witness ==
  /\ PriceEdit
  /\ modeCatalog(itemMapGet(items, last.id)[1])
       # modeCatalog(itemMapGet(last.preItems, last.id)[1])
  /\ statsByItem(items, sales)[last.id].revenue > 0
  /\ \E k \in 1..Len(sales) :
       /\ sales[k].itemId = last.id
       /\ modePrice(sales[k], itemMapGet(items, last.id)[1])
            # modeCatalog(itemMapGet(items, last.id)[1])

(* C12: no ledger operation on existing items (updateItem included)        *)
(* changes the trackBy of an item.                                         *)
C12_TrackByFixed ==
  last.op \in {"updateItem", "deleteItem", "adjustStock", "addSale", "updateSale", "deleteSale"}
  => \A i \in 1..Len(last.preItems), j \in 1..Len(items) :
       last.preItems[i].id = items[j].id => last.preItems[i].trackBy = items[j].trackBy

(* C13: addSale whose clamped quantity is 0, or whose itemId matches no    *)
(* item, creates no Sale and changes no stock.                             *)
C13_EmptySaleRejected ==
  (last.op = "addSale" /\ (SoldItem = <<>> \/ SoldQty = 0))
  => (sales = last.preSales /\ items = last.preItems)

(* A negative quantity asked of an item that has stock.                    *)
C13_Witness ==
  /\ last.op = "addSale"
  /\ SoldItem # <<>>
  /\ stockOf(SoldItem[1]) > 0
  /\ IsFinite(modeQty(last.payload, SoldItem[1]))
  /\ modeQty(last.payload, SoldItem[1])[1] < 0
  /\ SoldQty = 0

(* C14: every rejected addSale or updateSale (insufficient stock, zero     *)
(* quantity after clamping, missing item) signals a reason and changes no  *)
(* state.                                                                  *)
SaleRejected ==
  \/ /\ last.op = "addSale"
     /\ (SoldItem = <<>> \/ SoldQty = 0 \/ SoldQty > stockOf(SoldItem[1]))
  \/ /\ EditApplies
     /\ EditDelta > 0
     /\ stockOf(EditedItem[1]) < EditDelta

C14_RejectionSignalsReason ==
  SaleRejected => (last.alert /\ sales = last.preSales /\ items = last.preItems)

(* C15: deleteItem(id, cascade) removes the item with that id and leaves   *)
(* the other items as they were; the Sales are the prior ones minus those  *)
(* of that item when cascade is true, and unchanged when it is false.      *)
C15_DeleteItemFrame ==
  last.op = "deleteItem"
  => LET NotIt(i) == i.id # last.id
         NotOfIt(x) == x.itemId # last.id
     IN /\ items = SelectSeq(last.preItems, NotIt)
        /\ sales = IF last.also THEN SelectSeq(last.preSales, NotOfIt) ELSE last.preSales

(* A cascading delete of an item that had a sale, another item remaining.  *)
C15_Witness ==
  /\ last.op = "deleteItem"
  /\ last.also
  /\ \E k \in 1..Len(last.preSales) : last.preSales[k].itemId = last.id
  /\ items # <<>>

(* C16: with no Sales, statsByItem has, for every item, soldUnits = 0,     *)
(* soldKg = 0 and revenue = 0.                                             *)
C16_NoSalesZeroStats ==
  sales = <<>>
  => /\ DOMAIN statsByItem(items, sales) = Ids(items)
     /\ \A id \in Ids(items) :
          statsByItem(items, sales)[id] = [soldUnits |-> 0, soldKg |-> 0, revenue |-> 0]

(* Two items and no sale left after the last sale was deleted.             *)
C16_Witness ==
  /\ sales = <<>>
  /\ Len(items) = 2
  /\ last.op = "deleteSale"
  /\ last.preSales # <<>>

(* C17: statsByItem has entries for the existing items only, and the Sales *)
(* whose itemId matches no item contribute nothing: the result is the one  *)
(* computed without them.                                                  *)
C17_OrphansIgnored ==
  LET HasItem(x) == x.itemId \in Ids(items) IN
  /\ DOMAIN statsByItem(items, sales) = Ids(items)
  /\ statsByItem(items, sales) = statsByItem(items, SelectSeq(sales, HasItem))

(* A sale without item next to a sale of an existing item.                 *)
C17_Witness ==
  /\ \E k \in 1..Len(sales) : sales[k].itemId \notin Ids(items)
  /\ \E k \in 1..Len(sales) : sales[k].itemId \in Ids(items)

(* C18: every soldUnits, soldKg and revenue of statsByItem is >= 0, also   *)
(* when Sales store a negative quantity or a negative total.               *)
C18_StatsNonNegative ==
  \A id \in DOMAIN statsByItem(items, sales) :
    /\ statsByItem(items, sales)[id].soldUnits >= 0
    /\ statsByItem(items, sales)[id].soldKg >= 0
    /\ statsByItem(items, sales)[id].revenue >= 0

(* A sale of an existing item stores a negative quantity and total.        *)
C18_Witness ==
  \E k \in 1..Len(sales) :
    /\ sales[k].itemId \in Ids(items)
    /\ IsFinite(sales[k].qtyUnits)
    /\ sales[k].qtyUnits[1] < 0
    /\ IsFinite(sales[k].total)
    /\ sales[k].total[1] < 0

(* C19: importing the exported file while the collections are still those  *)
(* that were exported leaves items and sales as they were.                 *)
ImportOfExport ==
  /\ last.op = "importJson"
  /\ backup.kind = "file"
  /\ last.file = backup.file
  /\ last.preItems = backup.ofItems
  /\ last.preSales = backup.ofSales

C19_ExportImportRoundTrip ==
  ImportOfExport => (items = last.preItems /\ sales = last.preSales)

(* The round trip of collections that are not empty.                       *)
C19_Witness ==
  /\ ImportOfExport
  /\ ~last.alert
  /\ items # <<>>
  /\ sales # <<>>

(* C20: an import whose file cannot be parsed, or whose items or sales is  *)
(* missing or not an array, changes neither collection.                    *)
BadFile(f) == f.kind # "object" \/ f.items.kind # "array" \/ f.sales.kind # "array"

C20_BadImportRejected ==
  (last.op = "importJson" /\ BadFile(last.file))
  => (items = last.preItems /\ sales = last.preSales /\ last.alert)

(* A file with a valid items array and no sales array, imported over       *)
(* other collections.                                                      *)
C20_Witness ==
  /\ last.op = "importJson"
  /\ last.file.kind = "object"
  /\ last.file.items.kind = "array"
  /\ last.file.sales.kind # "array"
  /\ last.preSales # <<>>
  /\ last.preItems # readArray(last.file.items.val, ItemKeys)

(* C21: on load, a stored value under the items or the sales key that is   *)
(* not a well-formed array gives the empty collection for that key, and    *)
(* the application is running afterwards.                                  *)
C21_MalformedLoadFallsBack ==
  last.op = "load"
  => /\ ~last.fatal
     /\ (last.hadItems.kind # "array" => items = <<>>)
     /\ (last.hadSales.kind # "array" => sales = <<>>)

(* C22: with every write succeeding, after each mutation the value stored  *)
(* under each key reads back as the in-memory collection of that key.      *)
C22_StoredEqualsMemory ==
  /\ LSget(lsItems, ItemKeys) = [isArray |-> TRUE, val |-> items]
  /\ LSget(lsSales, SaleKeys) = [isArray |-> TRUE, val |-> sales]
  /\ lsItems.kind = "array"
  /\ lsSales.kind = "array"

(* An edit of a sale that replaced both collections.                       *)
C22_Witness ==
  /\ last.op = "updateSale"
  /\ last.itemsSet
  /\ last.salesSet
  /\ items # last.preItems
  /\ sales # last.preSales
  /\ failBudget = 0

(* C23: a confirmed Reset Data leaves both collections empty and both keys *)
(* reading back as empty; a declined one changes nothing.                  *)
C23_ResetClearsOrKeeps ==
  last.op = "resetAll"
  => IF last.confirmed
     THEN /\ items = <<>>
          /\ sales = <<>>
          /\ LSget(lsItems, ItemKeys).val = <<>>
          /\ LSget(lsSales, SaleKeys).val = <<>>
     ELSE /\ items = last.preItems
          /\ sales = last.preSales
          /\ LSget(lsItems, ItemKeys).val = last.preItems
          /\ LSget(lsSales, SaleKeys).val = last.preSales

(* A confirmed reset of a ledger that held an item and a sale.             *)
C23_Witness ==
  /\ last.op = "resetAll"
  /\ last.confirmed
  /\ last.preItems # <<>>
  /\ last.preSales # <<>>

(* C24: createItem puts exactly one new item at the front of the items,    *)
(* keeps the others in their order, gives it equal createdAt and           *)
(* updatedAt, and gives it the supplied stock of its tracking mode when    *)
(* that is finite and positive, and 0 otherwise.                           *)
SuppliedStock == modeStock(last.partial)

C24_CreateInsertsAtFront ==
  last.op = "createItem"
  => /\ Len(items) = Len(last.preItems) + 1
     /\ Tail(items) = last.preItems
     /\ Head(items).id \notin Ids(last.preItems)
     /\ Head(items).trackBy = last.partial.trackBy
     /\ modeStock(Head(items)) =
          Num(IF IsFinite(SuppliedStock) /\ SuppliedStock[1] > 0 THEN SuppliedStock[1] ELSE 0)
     /\ last.times.createdAt = last.times.updatedAt
     /\ sales = last.preSales

(* A second item created with a negative stock.                            *)
C24_Witness ==
  /\ last.op = "createItem"
  /\ last.preItems # <<>>
  /\ IsFinite(SuppliedStock)
  /\ SuppliedStock[1] < 0

(* C25: updateSale naming no existing sale, updateSale of a sale whose     *)
(* item no longer exists, and deleteSale naming no existing sale change    *)
(* neither collection.                                                     *)
C25_MissingTargetsAreNoOps ==
  ( \/ (last.op = "updateSale" /\ EditedSale = <<>>)
    \/ (last.op = "updateSale" /\ EditedSale # <<>> /\ EditedItem = <<>>)
    \/ (last.op = "deleteSale" /\ DeletedSale = <<>>) )
  => /\ items = last.preItems
     /\ sales = last.preSales
     /\ ~last.itemsSet
     /\ ~last.salesSet

(* An edit of a sale whose item was deleted without its sales.             *)
C25_Witness ==
  /\ last.op = "updateSale"
  /\ EditedSale # <<>>
  /\ EditedItem = <<>>
  /\ DOMAIN last.changes # {}

(* A deleteSale that names no sale while sales exist.                      *)
C25_WitnessDelete ==
  /\ last.op = "deleteSale"
  /\ DeletedSale = <<>>
  /\ last.preSales # <<>>

(* C26: over createItem, restock, addSale, updateSale and deleteSale, the  *)
(* stock of every item plus the quantity statsByItem reports as sold is    *)
(* its initial stock plus its restocks. Stated for the last call: a new    *)
(* item has its initial stock and nothing sold, and for every other item   *)
(* the sum changed by what the call restocked.                             *)
OnHandPlusSold(its, ss, id) ==
  LET it == itemMapGet(its, id)[1]
      st == statsByItem(its, ss)[id]
  IN stockOf(it) + (IF it.trackBy = "unit" THEN st.soldUnits ELSE st.soldKg)

Restocked(id) == IF last.op = "restock" /\ last.id = id /\ last.n > 0 THEN last.n ELSE 0

C26_StockConserved ==
  last.op \in {"createItem", "restock", "addSale", "updateSale", "deleteSale"}
  => \A id \in Ids(items) :
       IF id \in Ids(last.preItems)
       THEN OnHandPlusSold(items, sales, id)
              = OnHandPlusSold(last.preItems, last.preSales, id) + Restocked(id)
       ELSE OnHandPlusSold(items, sales, id) = stockOf(itemMapGet(items, id)[1])

(* C27: every recorded sale stores, in the tracking mode of its item, a    *)
(* quantity that is a number > 0.                                          *)
C27_SaleQuantityPositive ==
  \A k \in 1..Len(sales) :
    LET got == itemMapGet(items, sales[k].itemId) IN
    got # <<>>
    => /\ IsFinite(modeQty(sales[k], got[1]))
       /\ modeQty(sales[k], got[1])[1] > 0

(* C28: two addSale calls for one item made against the same rendered      *)
(* items record sales whose combined quantity is at most the stock the     *)
(* item had in that render.                                                *)
RECURSIVE RecordedQty(_, _)
RecordedQty(ss, it) ==
  IF ss = <<>> THEN 0 ELSE OrZero(modeQty(Head(ss), it)) + RecordedQty(Tail(ss), it)

BatchItem == itemMapGet(last.preItems, last.itemId)[1]

BatchSales == SubSeq(sales, 1, Len(sales) - Len(last.preSales))

C28_BatchWithinSnapshotStock ==
  last.op = "addSaleBatch"
  => RecordedQty(BatchSales, BatchItem) <= stockOf(BatchItem)

(* C29: in the v1 variant, when the sales key held an array before         *)
(* start-up, it holds the same array once start-up has settled, whatever   *)
(* the items key held.                                                     *)
C29_StartupKeepsStoredSales ==
  (last.op = "v1start" /\ last.hadSales.kind = "array")
  => lsSales = last.hadSales

(* C30: an updateSale that leaves the quantity as it was (delta = 0) is    *)
(* accepted whatever the stock, 0 included: no alert, the sale takes the   *)
(* changed fields, and no item changes.                                    *)
C30_SameQuantityAccepted ==
  (EditApplies /\ EditDelta = 0)
  => LET s == findSale(sales, last.saleId) IN
     /\ ~last.alert
     /\ items = last.preItems
     /\ ~last.itemsSet
     /\ s # <<>>
     /\ \A k \in DOMAIN last.changes : s[1][k] = last.changes[k]
     /\ Len(sales) = Len(last.preSales)

(* The price of a sale was edited while its item had no stock left.        *)
C30_Witness ==
  /\ EditApplies
  /\ EditDelta = 0
  /\ EditOldQty > 0
  /\ stockOf(EditedItem[1]) = 0
  /\ modePrice(findSale(sales, last.saleId)[1], EditedItem[1])
       # modePrice(EditedSale[1], EditedItem[1])

====
